---- MODULE Spec2Model ----
(***************************************************************************)
(* The per-window control core of nativeshell's macOS backend              *)
(* (shell/platform/macos/window.rs): visibility sequencing                 *)
(* (ready_to_show / show / hide and the show_when_ready poll), the modal   *)
(* completion callback, close, geometry requests, the record of the last   *)
(* event of each type with the events synthesized from it, and popup menus.*)
(*                                                                         *)
(* Lengths are fixed-point numbers: a length of n stands for n/Den points, *)
(* so that the f64 -> NSInteger cast of show_when_ready truncates.         *)
(***************************************************************************)
EXTENDS Integers, Sequences, FiniteSets, TLC

\* ----------------------------------------------------------------- bounds
\* Fixed-point denominator of lengths (a length n is n/Den points).
Den == 2
\* Rendered surfaces are 1..MaxPx pixels wide and high.
MaxPx == 2
\* The run loop holds at most MaxTasks scheduled closures.
MaxTasks == 2
\* Completion callbacks handed to show_modal are 1..NCallbacks.
NCallbacks == 2
\* Result values handed to close_with_result are 1..NValues.
NValues == 2
\* Height of the title bar (frame height minus content height), in 1/Den.
TitleBar == 1
\* Height of the screen the window is on, in points.
ScreenHeight == 6
\* The recorded call sequence holds at most MaxHist API calls.
MaxHist == 3
\* The check counters saturate at MaxChecks + 1.
MaxChecks == 4
\* The host delivers at most MaxEvents events to the window.
MaxEvents == 2
\* The system uptime runs from 0 to MaxTime.
MaxTime == 1
\* Modifier flags of host events are 0..MaxFlags.
MaxFlags == 1

\* ------------------------------------------------------ program constants
\* NSRect::new(NSPoint::new(400.0, 400.0), NSSize::new(400.0, 400.0))
InitialRect == 400
\* NSWindow::setContentSize_(.., Size::wh(1.0, 1.0))
TemporarySize == 1
\* NSEventType values named in the event code.
NSLeftMouseDown == 1
NSLeftMouseUp == 2
NSRightMouseDown == 3
NSRightMouseUp == 4
NSMouseMoved == 5
NSMouseEntered == 8
NSMouseExited == 9

VARIABLES
    alive,                  \* the Rc<PlatformWindow> still has a strong owner
    delegate_alive,         \* self.delegate (Weak) still upgrades
    parent_platform_window, \* "None" | "Some" (weak loads) | "Nil" (weak loads nil)
    modal_close_callback,   \* 0 = None, c > 0 = Some(callback c)
    ready_to_show,          \* Cell<bool>
    show_when_ready,        \* Cell<bool>
    run_loop,               \* closures scheduled on context.run_loop, in order
    platform_window,        \* the native NSWindow: ordering, frame, content, limits
    surface,                \* contents of the content view's first sublayer
    scale,                  \* the window's backingScaleFactor
    panicked,               \* a panic! / unwrap on None has aborted the process
    op,                     \* the operation the last step ran
    log,                    \* the native calls and notifications of the last step
    arg,                    \* the argument of the last operation (0 without one)
    ret,                    \* what the last operation returned
    last_event,             \* RefCell<HashMap<u64, StrongPtr>>: event type -> event
    ignore_enter_leave_until, \* Cell<f64>
    clock,                  \* NSProcessInfo systemUptime
    mouse,                  \* NSEvent mouseLocation, in screen coordinates
    event_number,           \* eventNumber of the last event the host delivered
    history,                \* the API calls made so far (recorded runs only)
    chains,                 \* show_when_ready calls made by API calls so far
    checks,                 \* show_when_ready checks run so far (counted runs only)
    nil_checks,             \* ... of which found no content
    presentations,          \* actually_show calls so far
    hide_mark,              \* presentations at the last hide() with no show since, or -1
    invocations,            \* the completion callbacks invoked so far (tracked runs only)
    overwritten,            \* the callbacks show_modal has replaced
    handed,                 \* the callbacks handed to show_modal / show_popup_menu
    scheduled               \* the uptime at which each popup callback was scheduled

progvars == <<alive, delegate_alive, parent_platform_window, modal_close_callback,
              ready_to_show, show_when_ready, run_loop, platform_window, surface,
              scale, panicked, op, arg, log, ret,
              last_event, ignore_enter_leave_until, clock, mouse, event_number>>
eventvars == <<last_event, ignore_enter_leave_until, clock, mouse, event_number>>
callbackobs == <<invocations, overwritten, handed, scheduled>>
obsvars == <<history, chains, checks, nil_checks, presentations, hide_mark,
             invocations, overwritten, handed, scheduled>>
vars == <<alive, delegate_alive, parent_platform_window, modal_close_callback,
          ready_to_show, show_when_ready, run_loop, platform_window, surface,
          scale, panicked, op, arg, log, ret,
          last_event, ignore_enter_leave_until, clock, mouse, event_number,
          history, chains, checks, nil_checks, presentations, hide_mark,
          invocations, overwritten, handed, scheduled>>

\* ------------------------------------------------------------ value sets
NoSurface == [kind |-> "nil", width |-> 0, height |-> 0]
OtherContents == [kind |-> "other", width |-> 0, height |-> 0]
IOSurface(w, h) == [kind |-> "IOSurface", width |-> w, height |-> h]
Surfaces == {NoSurface, OtherContents} \cup {IOSurface(w, h) : w \in 1..MaxPx, h \in 1..MaxPx}

\* An absent Option<Point> / Option<Size> is the empty tuple.
None == <<>>
IsSome(v) == v # None

Unit == [kind |-> "unit"]
\* The closures scheduled on the run loop.
PollTask == [kind |-> "show_when_ready", on_done |-> 0]
PopupTask(on_done) == [kind |-> "popup", on_done |-> on_done]

RemoveAt(s, i) == [j \in 1..(Len(s) - 1) |-> IF j < i THEN s[j] ELSE s[j + 1]]
Inc(n, cap) == IF n < cap THEN n + 1 ELSE n
Happened(l, name) == \E i \in 1..Len(l) : l[i][1] = name
Count(l, name) == Cardinality({i \in 1..Len(l) : l[i][1] = name})
Index(l, name) == CHOOSE i \in 1..Len(l) : l[i][1] = name

\* ------------------------------------------------------- the native window
\* NSWindow.contentRectForFrameRect: the frame without the title bar on top.
contentRectForFrameRect(f) == [x |-> f.x, y |-> f.y, w |-> f.w, h |-> f.h - TitleBar]
\* NSWindow.frameRectForContentRect
frameRectForContentRect(c) == [x |-> c.x, y |-> c.y, w |-> c.w, h |-> c.h + TitleBar]
\* NSView::frame(contentView).size; a window without a content view has none.
ContentViewSize(pw) ==
    IF pw.content_view
    THEN [w |-> pw.frame.w, h |-> pw.frame.h - TitleBar]
    ELSE [w |-> 0, h |-> 0]
\* NSWindow.setContentSize: the top-left corner of the frame stays where it is.
setContentSize(pw, w, h) ==
    [pw EXCEPT !.frame = [x |-> pw.frame.x,
                          y |-> pw.frame.y + pw.frame.h - (h + TitleBar),
                          w |-> w,
                          h |-> h + TitleBar]]

\* msg_send![contents, ...] on the first sublayer of the content view's layer.
Contents(pw) == IF pw.content_view THEN surface ELSE NoSurface

NoLimits ==
    [min_frame_size |-> <<0, 0>>, max_frame_size |-> <<0, 0>>,
     min_content_size |-> <<0, 0>>, max_content_size |-> <<0, 0>>]

\* PlatformWindow::new followed by assign_weak_self.
NewWindow ==
    setContentSize(
        [ordered |-> "out",
         content_view |-> TRUE,
         limits |-> NoLimits,
         frame |-> frameRectForContentRect(
                      [x |-> InitialRect * Den, y |-> InitialRect * Den,
                       w |-> InitialRect * Den, h |-> InitialRect * Den])],
        TemporarySize * Den, TemporarySize * Den)

\* The event types the host delivers: the pointer events named in the code
\* and one type that is not a pointer event.
EventTypes ==
    {NSLeftMouseDown, NSLeftMouseUp, NSRightMouseDown, NSRightMouseUp,
     NSMouseMoved, NSMouseEntered, NSMouseExited, NSMouseExited + 1}
\* The value of a key last_event holds no entry for.
NoEvent ==
    [type |-> 0, eventNumber |-> 0, timestamp |-> 0, location |-> <<0, 0>>,
     modifierFlags |-> 0]

\* Where the pointer can be: inside the content rectangle of the new window,
\* on its left edge, and on its top edge.
ContentRect(pw) == contentRectForFrameRect(pw.frame)
InsidePoint == <<ContentRect(NewWindow).x + 1, ContentRect(NewWindow).y + 1>>
MousePositions ==
    {InsidePoint,
     <<ContentRect(NewWindow).x, ContentRect(NewWindow).y + 1>>,
     <<ContentRect(NewWindow).x + 1,
       ContentRect(NewWindow).y + ContentRect(NewWindow).h>>}

Init ==
    /\ alive = TRUE
    /\ delegate_alive = TRUE
    /\ parent_platform_window \in {"None", "Some"}
    /\ modal_close_callback = 0
    /\ ready_to_show = FALSE
    /\ show_when_ready = FALSE
    /\ run_loop = <<>>
    /\ platform_window = NewWindow
    /\ surface = NoSurface
    /\ scale \in {1, 2}
    /\ panicked = FALSE
    /\ op = "new"
    /\ arg = 0
    /\ log = <<>>
    /\ ret = Unit
    /\ history = <<>>
    /\ chains = 0
    /\ checks = 0
    /\ nil_checks = 0
    /\ presentations = 0
    /\ hide_mark = -1
    /\ last_event = [t \in EventTypes |-> NoEvent]
    /\ ignore_enter_leave_until = 0
    /\ clock = 0
    /\ mouse = InsidePoint
    /\ event_number = 0
    /\ invocations = <<>>
    /\ overwritten = {}
    /\ handed = {}
    /\ scheduled = [c \in 1..NCallbacks |-> 0]


\* ------------------------------------------------------------ show protocol
\* expected_width as NSInteger: scale * length, truncated towards zero.
ExpectedPixels(len) == (scale * len) \div Den

\* A size test that compares the widths alone.
SizeMatches_width_only(contents, size) == contents.width = ExpectedPixels(size.w)

\* actual_width == expected_width as NSInteger && actual_height == expected_height as NSInteger
SizeMatches(contents, size) ==
    /\ contents.width = ExpectedPixels(size.w)
    /\ contents.height = ExpectedPixels(size.h)

\* actually_show: a modal window becomes a sheet of its parent (unwrap panics
\* without a parent; a parent that is gone loads nil and the message is
\* dropped), any other window is ordered front.
actually_show(pw, modal) ==
    IF modal
    THEN IF parent_platform_window = "None"
         THEN [pw |-> pw, fx |-> <<<<"actually_show", 0>>, <<"panic", 0>>>>, panic |-> TRUE]
         ELSE IF parent_platform_window = "Some"
         THEN [pw |-> [pw EXCEPT !.ordered = "sheet"],
               fx |-> <<<<"actually_show", 0>>, <<"beginSheet", 1>>>>, panic |-> FALSE]
         ELSE [pw |-> pw,
               fx |-> <<<<"actually_show", 0>>, <<"beginSheet", 0>>>>, panic |-> FALSE]
    ELSE [pw |-> [pw EXCEPT !.ordered = "front"],
          fx |-> <<<<"actually_show", 0>>, <<"makeKeyAndOrderFront", 0>>>>, panic |-> FALSE]

\* delegate.visibility_changed(visible), when the delegate still upgrades.
visibility_changed(visible) ==
    IF delegate_alive THEN <<<<"visibility_changed", visible>>>> ELSE <<>>

\* A check that gives up, instead of asking for another check, when the
\* contents have the wrong size.
show_when_ready_check_gives_up(pw, modal) ==
    LET contents == Contents(pw)
    IN  IF contents.kind = "nil"
        THEN [pw |-> pw, fx |-> <<<<"schedule", 0>>>>, panic |-> FALSE, reschedule |-> TRUE]
        ELSE IF contents.kind # "IOSurface"
        THEN [pw |-> pw, fx |-> <<<<"panic", 0>>>>, panic |-> TRUE, reschedule |-> FALSE]
        ELSE IF SizeMatches(contents, ContentViewSize(pw))
        THEN LET shown == actually_show(pw, modal)
             IN  [pw |-> shown.pw,
                  fx |-> IF shown.panic THEN shown.fx
                         ELSE shown.fx \o visibility_changed(1),
                  panic |-> shown.panic,
                  reschedule |-> FALSE]
        ELSE [pw |-> pw, fx |-> <<>>, panic |-> FALSE, reschedule |-> FALSE]

\* The body of show_when_ready once weak_self has upgraded: one check of the
\* rendered contents, which presents the window or asks for another check.
show_when_ready_check(pw, modal) ==
    LET contents == Contents(pw)
        retry == [pw |-> pw, fx |-> <<<<"schedule", 0>>>>, panic |-> FALSE,
                  reschedule |-> TRUE]
    IN  IF contents.kind = "nil" THEN retry
        ELSE IF contents.kind # "IOSurface"
        THEN [pw |-> pw, fx |-> <<<<"panic", 0>>>>, panic |-> TRUE, reschedule |-> FALSE]
        ELSE IF SizeMatches(contents, ContentViewSize(pw))
        THEN LET shown == actually_show(pw, modal)
             IN  [pw |-> shown.pw,
                  fx |-> IF shown.panic THEN shown.fx
                         ELSE shown.fx \o visibility_changed(1),
                  panic |-> shown.panic,
                  reschedule |-> FALSE]
        ELSE retry

\* show_when_ready that runs its check whether or not weak_self upgrades.
show_when_ready_fn_ignores_teardown(rl, pre, modal) ==
    LET r == show_when_ready_check(platform_window, modal)
    IN  /\ r.reschedule => Len(rl) < MaxTasks
        /\ platform_window' = r.pw
        /\ run_loop' = IF r.reschedule THEN Append(rl, PollTask) ELSE rl
        /\ panicked' = r.panic
        /\ log' = pre \o r.fx

\* Self::show_when_ready(weak_self) with rl the run loop it is called under and
\* pre what the caller has logged: nothing happens once the core is gone.
show_when_ready_fn(rl, pre, modal) ==
    IF alive
    THEN LET r == show_when_ready_check(platform_window, modal)
         IN  /\ r.reschedule => Len(rl) < MaxTasks
             /\ platform_window' = r.pw
             /\ run_loop' = IF r.reschedule THEN Append(rl, PollTask) ELSE rl
             /\ panicked' = r.panic
             /\ log' = pre \o r.fx
    ELSE /\ platform_window' = platform_window
         /\ run_loop' = rl
         /\ panicked' = panicked
         /\ log' = pre

\* ------------------------------------------------------------ operations
ReadyToShow ==
    /\ alive /\ ~panicked
    /\ ready_to_show' = TRUE
    /\ IF show_when_ready
       THEN show_when_ready_fn(run_loop, <<>>, modal_close_callback # 0)
       ELSE /\ log' = <<>>
            /\ UNCHANGED <<platform_window, run_loop, panicked>>
    /\ op' = "ready_to_show"
    /\ UNCHANGED eventvars
    /\ arg' = 0
    /\ ret' = Unit
    /\ UNCHANGED <<alive, delegate_alive, parent_platform_window, modal_close_callback,
                   show_when_ready, surface, scale>>

\* show() that enters the show protocol without testing ready_to_show.
show_fn_ignores_readiness(cb) ==
    /\ show_when_ready_fn(run_loop, <<>>, cb # 0)
    /\ show_when_ready' = TRUE

\* The body of show(), with cb the completion callback stored when it runs.
show_fn(cb) ==
    IF ready_to_show
    THEN /\ show_when_ready_fn(run_loop, <<>>, cb # 0)
         /\ show_when_ready' = show_when_ready
    ELSE /\ show_when_ready' = TRUE
         /\ log' = <<>>
         /\ UNCHANGED <<platform_window, run_loop, panicked>>

Show ==
    /\ alive /\ ~panicked
    /\ show_fn(modal_close_callback)
    /\ op' = "show"
    /\ UNCHANGED eventvars
    /\ arg' = 0
    /\ ret' = Unit
    /\ UNCHANGED <<alive, delegate_alive, parent_platform_window, modal_close_callback,
                   ready_to_show, surface, scale>>

\* show_modal that keeps a completion callback it already holds.
ShowModal_keeps_first(done_callback) ==
    /\ alive /\ ~panicked
    /\ modal_close_callback' = IF modal_close_callback # 0 THEN modal_close_callback
                               ELSE done_callback
    /\ show_fn(done_callback)
    /\ op' = "show_modal"
    /\ UNCHANGED eventvars
    /\ arg' = done_callback
    /\ ret' = Unit
    /\ UNCHANGED <<alive, delegate_alive, parent_platform_window, ready_to_show,
                   surface, scale>>

ShowModal(done_callback) ==
    /\ alive /\ ~panicked
    /\ modal_close_callback' = done_callback
    /\ show_fn(done_callback)
    /\ op' = "show_modal"
    /\ UNCHANGED eventvars
    /\ arg' = done_callback
    /\ ret' = Unit
    /\ UNCHANGED <<alive, delegate_alive, parent_platform_window, ready_to_show,
                   surface, scale>>

\* hide() that leaves a remembered show request in place.
hide_fn_keeps_request ==
    IF ready_to_show
       THEN /\ platform_window' = [platform_window EXCEPT !.ordered = "out"]
            /\ log' = <<<<"orderOut", 0>>>> \o visibility_changed(0)
            /\ UNCHANGED <<show_when_ready, ready_to_show>>
       ELSE /\ log' = <<>>
            /\ UNCHANGED <<show_when_ready, ready_to_show, platform_window>>

\* hide() that forgets the window was declared ready.
hide_fn_resets_ready ==
    IF ready_to_show
       THEN /\ platform_window' = [platform_window EXCEPT !.ordered = "out"]
            /\ log' = <<<<"orderOut", 0>>>> \o visibility_changed(0)
            /\ show_when_ready' = show_when_ready
            /\ ready_to_show' = FALSE
       ELSE /\ show_when_ready' = FALSE
            /\ log' = <<>>
            /\ UNCHANGED <<ready_to_show, platform_window>>

\* What hide() does to the two flags and the native window.
hide_fn ==
    IF ready_to_show
       THEN /\ platform_window' = [platform_window EXCEPT !.ordered = "out"]
            /\ log' = <<<<"orderOut", 0>>>> \o visibility_changed(0)
            /\ show_when_ready' = show_when_ready
            /\ ready_to_show' = ready_to_show
       ELSE /\ show_when_ready' = FALSE
            /\ log' = <<>>
            /\ platform_window' = platform_window
            /\ ready_to_show' = ready_to_show

Hide ==
    /\ alive /\ ~panicked
    /\ hide_fn
    /\ op' = "hide"
    /\ UNCHANGED eventvars
    /\ arg' = 0
    /\ ret' = Unit
    /\ UNCHANGED <<alive, delegate_alive, parent_platform_window, modal_close_callback,
                   run_loop, surface, scale, panicked>>

\* window_will_close, which AppKit calls on the window's delegate object from
\* NSWindow.close: with_state_delegate runs the body only when the delegate
\* still upgrades (the core is alive, close() being one of its methods).
window_will_close(pw) ==
    IF delegate_alive
    THEN [pw |-> [pw EXCEPT !.content_view = FALSE],
          fx |-> <<<<"childWindows.close", 0>>,
                   <<"setContentViewController", 0>>,
                   <<"menu_manager.window_will_close", 0>>,
                   <<"will_close", 0>>>>]
    ELSE [pw |-> pw, fx |-> <<>>]

\* callback(Ok(result)) for the callback taken out of modal_close_callback.
invoke_callback(callback, result) ==
    IF callback # 0 THEN <<<<"callback", callback, result>>>> ELSE <<>>

\* close() that calls a pending completion callback with a cancelled outcome.
close_fn_cancels_callback(pw) ==
    LET ended == IF pw.ordered = "sheet" THEN <<<<"endSheet", 0>>>> ELSE <<>>
        closing == window_will_close(pw)
    IN  [pw |-> [closing.pw EXCEPT !.ordered = "out"],
         fx |-> ended \o <<<<"close", 0>>>> \o closing.fx \o
                invoke_callback(modal_close_callback, 0)]

\* The body of close(): end the sheet when the window is one, then close.
close_fn(pw) ==
    LET ended == IF pw.ordered = "sheet" THEN <<<<"endSheet", 0>>>> ELSE <<>>
        closing == window_will_close(pw)
    IN  [pw |-> [closing.pw EXCEPT !.ordered = "out"],
         fx |-> ended \o <<<<"close", 0>>>> \o closing.fx]

Close ==
    /\ alive /\ ~panicked
    /\ platform_window' = close_fn(platform_window).pw
    /\ log' = close_fn(platform_window).fx
    /\ op' = "close"
    /\ UNCHANGED eventvars
    /\ arg' = 0
    /\ ret' = Unit
    /\ UNCHANGED <<alive, delegate_alive, parent_platform_window, modal_close_callback,
                   ready_to_show, show_when_ready, run_loop, surface, scale, panicked>>

\* close_with_result that closes the window before it invokes the callback.
close_with_result_fx_closes_first(callback, result, pw) ==
    close_fn(pw).fx \o invoke_callback(callback, result)

\* What close_with_result does, in order: the taken callback, then close().
close_with_result_fx(callback, result, pw) ==
    invoke_callback(callback, result) \o close_fn(pw).fx

\* close_with_result that calls the callback and leaves it stored.
CloseWithResult_keeps_callback(result) ==
    /\ alive /\ ~panicked
    /\ modal_close_callback' = modal_close_callback
    /\ platform_window' = close_fn(platform_window).pw
    /\ log' = close_with_result_fx(modal_close_callback, result, platform_window)
    /\ op' = "close_with_result"
    /\ UNCHANGED eventvars
    /\ arg' = result
    /\ ret' = Unit
    /\ UNCHANGED <<alive, delegate_alive, parent_platform_window, ready_to_show,
                   show_when_ready, run_loop, surface, scale, panicked>>

CloseWithResult(result) ==
    /\ alive /\ ~panicked
    /\ modal_close_callback' = 0
    /\ platform_window' = close_fn(platform_window).pw
    /\ log' = close_with_result_fx(modal_close_callback, result, platform_window)
    /\ op' = "close_with_result"
    /\ UNCHANGED eventvars
    /\ arg' = result
    /\ ret' = Unit
    /\ UNCHANGED <<alive, delegate_alive, parent_platform_window, ready_to_show,
                   show_when_ready, run_loop, surface, scale, panicked>>

\* One turn of the run loop: the oldest scheduled closure runs.
RunTask ==
    /\ ~panicked
    /\ run_loop # <<>>
    /\ Head(run_loop) = PollTask
    /\ show_when_ready_fn(Tail(run_loop), <<>>, modal_close_callback # 0)
    /\ op' = "run_loop_turn"
    /\ UNCHANGED eventvars
    /\ arg' = 0
    /\ ret' = Unit
    /\ UNCHANGED <<alive, delegate_alive, parent_platform_window, modal_close_callback,
                   ready_to_show, show_when_ready, surface, scale>>

\* ------------------------------------------------------------ environment
\* The renderer replaces the contents of the content view's layer.
Render(s) ==
    /\ ~panicked
    /\ s # surface
    /\ surface' = s
    /\ op' = "render"
    /\ UNCHANGED eventvars
    /\ arg' = 0
    /\ log' = <<>>
    /\ ret' = Unit
    /\ UNCHANGED <<alive, delegate_alive, parent_platform_window, modal_close_callback,
                   ready_to_show, show_when_ready, run_loop, platform_window, scale,
                   panicked>>

\* The owner of the window delegate lets go of it: self.delegate upgrades no more.
DropDelegate ==
    /\ ~panicked
    /\ delegate_alive
    /\ delegate_alive' = FALSE
    /\ op' = "drop_delegate"
    /\ UNCHANGED eventvars
    /\ arg' = 0
    /\ log' = <<>>
    /\ ret' = Unit
    /\ UNCHANGED <<alive, parent_platform_window, modal_close_callback, ready_to_show,
                   show_when_ready, run_loop, platform_window, surface, scale, panicked>>

\* The parent's native window goes away: parent_platform_window loads nil.
DestroyParent ==
    /\ ~panicked
    /\ parent_platform_window = "Some"
    /\ parent_platform_window' = "Nil"
    /\ op' = "destroy_parent"
    /\ UNCHANGED eventvars
    /\ arg' = 0
    /\ log' = <<>>
    /\ ret' = Unit
    /\ UNCHANGED <<alive, delegate_alive, modal_close_callback, ready_to_show,
                   show_when_ready, run_loop, platform_window, surface, scale, panicked>>

\* The last strong reference to the core is dropped: weak_self upgrades no
\* more, and the stored completion callback is dropped with the core.
Teardown ==
    /\ ~panicked
    /\ alive
    /\ alive' = FALSE
    /\ modal_close_callback' = 0
    /\ op' = "drop"
    /\ UNCHANGED eventvars
    /\ arg' = 0
    /\ log' = <<>>
    /\ ret' = Unit
    /\ UNCHANGED <<delegate_alive, parent_platform_window, ready_to_show,
                   show_when_ready, run_loop, platform_window, surface, scale, panicked>>


\* ------------------------------------------------------------ geometry
\* NSScreen::frame(self.platform_window.screen()).size.height, in 1/Den.
ScreenFrameHeight == ScreenHeight * Den

\* set_frame_origin that places the bottom-left corner of the frame.
set_frame_origin_bottom_left(pw, position) ==
    [pw EXCEPT !.frame.x = position[1],
               !.frame.y = ScreenFrameHeight - position[2]]

\* set_frame_origin: setFrameTopLeftPoint at (x, screen height - y).
set_frame_origin(pw, position) ==
    [pw EXCEPT !.frame.x = position[1],
               !.frame.y = (ScreenFrameHeight - position[2]) - pw.frame.h]

get_frame_origin(pw) ==
    <<pw.frame.x, ScreenFrameHeight - (pw.frame.y + pw.frame.h)>>

\* set_frame_size: setFrameSize, the top-left corner of the frame stays.
set_frame_size(pw, size) ==
    [pw EXCEPT !.frame.w = size[1],
               !.frame.h = size[2],
               !.frame.y = pw.frame.y + pw.frame.h - size[2]]

\* set_content_position: the frame for the content rect at the new origin.
set_content_position(pw, position) ==
    LET content_size == ContentViewSize(pw)
        content_rect == [x |-> position[1],
                         y |-> ScreenFrameHeight - (position[2] + content_size.h),
                         w |-> content_size.w,
                         h |-> content_size.h]
    IN  [pw EXCEPT !.frame = frameRectForContentRect(content_rect)]

get_content_position(pw) ==
    LET content_rect == contentRectForFrameRect(pw.frame)
    IN  <<content_rect.x, ScreenFrameHeight - (content_rect.y + content_rect.h)>>

set_content_size(pw, size) == setContentSize(pw, size[1], size[2])

\* set_min_frame_size, set_max_frame_size, set_min_content_size, set_max_content_size
set_limit(pw, which, size) == [pw EXCEPT !.limits[which] = size]

is_modal(callback) == callback # 0

\* set_geometry that applies the origin fields of a modal window too.
applies_origin_always(modal) == TRUE

\* Whether set_geometry applies the origin fields of a request.
applies_origin(modal) == ~modal

\* The native window after set_geometry, with geometry the request as
\* filtered_by_preference returns it.
set_geometry_window(pw, geometry, modal) ==
    LET w1 == IF applies_origin(modal) /\ IsSome(geometry.frame_origin)
              THEN set_frame_origin(pw, geometry.frame_origin) ELSE pw
        w2 == IF IsSome(geometry.frame_size)
              THEN set_frame_size(w1, geometry.frame_size) ELSE w1
        w3 == IF applies_origin(modal) /\ IsSome(geometry.content_origin)
              THEN set_content_position(w2, geometry.content_origin) ELSE w2
        w4 == IF IsSome(geometry.content_size)
              THEN set_content_size(w3, geometry.content_size) ELSE w3
        w5 == IF IsSome(geometry.min_frame_size)
              THEN set_limit(w4, "min_frame_size", geometry.min_frame_size) ELSE w4
        w6 == IF IsSome(geometry.max_frame_size)
              THEN set_limit(w5, "max_frame_size", geometry.max_frame_size) ELSE w5
        w7 == IF IsSome(geometry.min_content_size)
              THEN set_limit(w6, "min_content_size", geometry.min_content_size) ELSE w6
    IN  IF IsSome(geometry.max_content_size)
        THEN set_limit(w7, "max_content_size", geometry.max_content_size) ELSE w7

\* The WindowGeometryFlags set_geometry returns.
set_geometry_flags(geometry, modal) ==
        [frame_origin |-> applies_origin(modal) /\ IsSome(geometry.frame_origin),
         frame_size |-> IsSome(geometry.frame_size),
         content_origin |-> applies_origin(modal) /\ IsSome(geometry.content_origin),
         content_size |-> IsSome(geometry.content_size),
         min_frame_size |-> IsSome(geometry.min_frame_size),
         max_frame_size |-> IsSome(geometry.max_frame_size),
         min_content_size |-> IsSome(geometry.min_content_size),
         max_content_size |-> IsSome(geometry.max_content_size)]

\* The WindowGeometryFlags supported_geometry() returns.
supported_geometry_flags(modal) ==
    [frame_origin |-> ~modal,
     frame_size |-> TRUE,
     content_origin |-> ~modal,
     content_size |-> TRUE,
     min_frame_size |-> TRUE,
     max_frame_size |-> TRUE,
     min_content_size |-> TRUE,
     max_content_size |-> TRUE]

SetGeometry(geometry) ==
    /\ alive /\ ~panicked
    /\ platform_window' =
           set_geometry_window(platform_window, geometry, is_modal(modal_close_callback))
    /\ ret' = [kind |-> "flags",
               flags |-> set_geometry_flags(geometry, is_modal(modal_close_callback))]
    /\ op' = "set_geometry"
    /\ UNCHANGED eventvars
    /\ arg' = geometry
    /\ log' = <<>>
    /\ UNCHANGED <<alive, delegate_alive, parent_platform_window, modal_close_callback,
                   ready_to_show, show_when_ready, run_loop, surface, scale, panicked>>

SupportedGeometry ==
    /\ alive /\ ~panicked
    /\ ret' = [kind |-> "flags",
               flags |-> supported_geometry_flags(is_modal(modal_close_callback))]
    /\ op' = "supported_geometry"
    /\ UNCHANGED eventvars
    /\ arg' = 0
    /\ log' = <<>>
    /\ UNCHANGED <<alive, delegate_alive, parent_platform_window, modal_close_callback,
                   ready_to_show, show_when_ready, run_loop, platform_window, surface,
                   scale, panicked>>

\* The geometry requests the application layer makes.
NoRequest ==
    [frame_origin |-> None, frame_size |-> None, content_origin |-> None,
     content_size |-> None, min_frame_size |-> None, max_frame_size |-> None,
     min_content_size |-> None, max_content_size |-> None]
Origins == {<<0, 0>>, <<Den, Den + 1>>}
ContentSizes == {<<Den, Den>>, <<Den + 1, Den>>}
FrameSizes == {<<2 * Den, Den + TitleBar>>}
LimitSizes == {<<Den, Den>>}
Opt(S) == {None} \cup S
LimitFields == {"min_frame_size", "max_frame_size", "min_content_size", "max_content_size"}
\* Every combination of origins and sizes, and each size limit on its own or
\* together with a whole request.
Requests ==
    LET placed == {[NoRequest EXCEPT !.frame_origin = fo, !.frame_size = fs,
                                    !.content_origin = co, !.content_size = cs] :
                      fo \in Opt(Origins), fs \in Opt(FrameSizes),
                      co \in Opt(Origins), cs \in Opt(ContentSizes)}
        limited == {[NoRequest EXCEPT ![f] = l] : f \in LimitFields, l \in LimitSizes}
        full == {[frame_origin |-> o, frame_size |-> fs, content_origin |-> o,
                  content_size |-> cs, min_frame_size |-> l, max_frame_size |-> l,
                  min_content_size |-> l, max_content_size |-> l] :
                    o \in Origins, fs \in FrameSizes, cs \in ContentSizes, l \in LimitSizes}
    IN  placed \cup limited \cup full
\* Requests that only resize the content.
ResizeRequests == {[NoRequest EXCEPT !.content_size = s] : s \in ContentSizes}

\* ------------------------------------------------------------ events
\* NSWindow.convertPointFromScreen
convertPointFromScreen(pw, point) == <<point[1] - pw.frame.x, point[2] - pw.frame.y>>

\* last_event.values()
Values(le) == {le[t] : t \in EventTypes} \ {NoEvent}
\* max_by_key that returns an event with the smallest number.
max_by_key_smallest(S) ==
    IF S = {} THEN {NoEvent}
    ELSE {e \in S : \A f \in S : f.eventNumber >= e.eventNumber}

\* What max_by_key(eventNumber) may return for the events S: any of those with
\* the largest number (the iteration order of a HashMap is unspecified), and
\* None, written NoEvent, when there are none.
max_by_key(S) ==
    IF S = {} THEN {NoEvent}
    ELSE {e \in S : \A f \in S : f.eventNumber <= e.eventNumber}
\* The filter of synthetize_mouse_up_event.
IsButtonEvent(e) ==
    e.type \in {NSLeftMouseDown, NSLeftMouseUp, NSRightMouseDown, NSRightMouseUp}
\* The filter of synthetize_mouse_move_if_needed.
IsPointerEvent(e) == e.type >= NSLeftMouseDown /\ e.type <= NSMouseExited

\* A record that keeps the first event of each type.
record_event_keeps_first(le, event) ==
    IF le[event.type] = NoEvent THEN [le EXCEPT ![event.type] = event] ELSE le

\* last_event.insert(event_type, event)
record_event(le, event) == [le EXCEPT ![event.type] = event]

\* should_send_event that also withholds an event stamped at the threshold.
ignores_event_at_threshold(event, until) ==
    /\ event.type \in {NSMouseEntered, NSMouseExited}
    /\ event.timestamp <= until

\* The test of should_send_event that withholds an event.
ignores_event(event, until) ==
    /\ event.type \in {NSMouseEntered, NSMouseExited}
    /\ event.timestamp < until

\* send_event for an event the core itself sends to the window: the event is
\* recorded, and passed on to NSWindow unless should_send_event withholds it.
\* (The synthesized events are never NSMouseEntered / NSMouseExited, so the
\* branch of should_send_event that synthesizes again is not reached here.)
send_synthesized(le, event, until) ==
    [last_event |-> record_event(le, event),
     fx |-> <<<<"sendEvent", event>>>> \o
            (IF ignores_event(event, until) THEN <<>>
             ELSE <<<<"super.sendEvent", event>>>>)]

\* A test that takes the edges of the content rectangle as inside.
InsideContentRect_with_edges(pw, location) ==
    LET content_rect == ContentRect(pw)
    IN  /\ location[1] >= content_rect.x
        /\ location[1] <= content_rect.x + content_rect.w
        /\ location[2] >= content_rect.y
        /\ location[2] <= content_rect.y + content_rect.h

\* location.x > origin.x && location.x < tail.x && location.y > ... (588-591)
InsideContentRect(pw, location) ==
    LET content_rect == ContentRect(pw)
    IN  /\ location[1] > content_rect.x
        /\ location[1] < content_rect.x + content_rect.w
        /\ location[2] > content_rect.y
        /\ location[2] < content_rect.y + content_rect.h

\* synthetize_mouse_move_if_needed on the record le, with until the threshold
\* in force when it runs.
synthetize_mouse_move_if_needed(le, pw, until) ==
    LET last == CHOOSE e \in max_by_key({e \in Values(le) : IsPointerEvent(e)}) : TRUE
        begin == <<<<"synthetize_mouse_move_if_needed", 0>>>>
    IN  IF last # NoEvent /\ InsideContentRect(pw, mouse)
        THEN LET sent == send_synthesized(le,
                            [type |-> NSMouseMoved,
                             eventNumber |-> last.eventNumber,
                             timestamp |-> clock,
                             location |-> convertPointFromScreen(pw, mouse),
                             modifierFlags |-> 0],
                            until)
             IN  [last_event |-> sent.last_event, fx |-> begin \o sent.fx]
        ELSE [last_event |-> le, fx |-> begin]

\* synthetize_mouse_up_event when max_by_key has returned last_ev. The location
\* handed to mouseEventWithType is NSEvent::mouseLocation, the pointer's
\* current place on the screen.
synthetize_mouse_up_event(le, last_ev, until) ==
    LET begin == <<<<"synthetize_mouse_up_event", 0>>>>
    IN  IF last_ev.type \in {NSLeftMouseDown, NSRightMouseDown}
        THEN LET sent == send_synthesized(le,
                            [type |-> IF last_ev.type = NSLeftMouseDown
                                      THEN NSLeftMouseUp ELSE NSRightMouseUp,
                             eventNumber |-> last_ev.eventNumber,
                             timestamp |-> last_ev.timestamp,
                             location |-> mouse,
                             modifierFlags |-> last_ev.modifierFlags],
                            until)
             IN  [last_event |-> sent.last_event, fx |-> begin \o sent.fx]
        ELSE [last_event |-> le, fx |-> begin]

\* The events the host can deliver next, numbered after the last one.
\* NSMouseEntered / NSMouseExited are stamped now or earlier (AppKit replays
\* queued ones). A button press is located at the pointer and carries the
\* modifier flags held down; of the other events, whose location and flags
\* the code never reads, these are left at zero.
HostEvents ==
    {e \in [type : EventTypes,
            eventNumber : {event_number + 1},
            timestamp : 0..clock,
            location : {<<0, 0>>, convertPointFromScreen(platform_window, mouse)},
            modifierFlags : 0..MaxFlags] :
        /\ e.type \notin {NSMouseEntered, NSMouseExited} => e.timestamp = clock
        /\ e.type \in {NSLeftMouseDown, NSRightMouseDown}
              <=> e.location # <<0, 0>>
        /\ e.type \notin {NSLeftMouseDown, NSRightMouseDown} => e.modifierFlags = 0}

\* send_event(this, e): the sendEvent: override of the window class.
SendEvent(event) ==
    /\ ~panicked
    /\ event_number < MaxEvents
    /\ event_number' = event.eventNumber
    /\ IF alive
       THEN LET stored == record_event(last_event, event)
            IN  IF ignores_event(event, ignore_enter_leave_until)
                THEN LET moved == synthetize_mouse_move_if_needed(
                                     stored, platform_window, ignore_enter_leave_until)
                     IN  /\ last_event' = moved.last_event
                         /\ log' = moved.fx
                         /\ ret' = [kind |-> "bool", value |-> FALSE]
                ELSE /\ last_event' = stored
                     /\ log' = <<<<"super.sendEvent", event>>>>
                     /\ ret' = [kind |-> "bool", value |-> TRUE]
       ELSE /\ last_event' = last_event
            /\ log' = <<<<"super.sendEvent", event>>>>
            /\ ret' = [kind |-> "bool", value |-> TRUE]
    /\ op' = "send_event"
    /\ arg' = event
    /\ UNCHANGED <<alive, delegate_alive, parent_platform_window, modal_close_callback,
                   ready_to_show, show_when_ready, run_loop, platform_window, surface,
                   scale, panicked, ignore_enter_leave_until, clock, mouse>>

\* show_popup_menu that pops the menu up before it returns.
ShowPopupMenu_presents_now(on_done) ==
    /\ alive /\ ~panicked
    /\ Len(run_loop) < MaxTasks
    /\ \E last_ev \in max_by_key({e \in Values(last_event) : IsButtonEvent(e)}) :
          LET up == synthetize_mouse_up_event(last_event, last_ev,
                                              ignore_enter_leave_until)
          IN  /\ last_event' = up.last_event
              /\ log' = up.fx \o <<<<"popUpMenuPositioningItem", 0>>,
                                   <<"schedule_now", on_done>>>>
    /\ run_loop' = Append(run_loop, PopupTask(on_done))
    /\ op' = "show_popup_menu"
    /\ arg' = on_done
    /\ ret' = Unit
    /\ UNCHANGED <<alive, delegate_alive, parent_platform_window, modal_close_callback,
                   ready_to_show, show_when_ready, platform_window, surface, scale,
                   panicked, ignore_enter_leave_until, clock, mouse, event_number>>

\* show_popup_menu(menu, request, on_done)
ShowPopupMenu(on_done) ==
    /\ alive /\ ~panicked
    /\ Len(run_loop) < MaxTasks
    /\ \E last_ev \in max_by_key({e \in Values(last_event) : IsButtonEvent(e)}) :
          LET up == synthetize_mouse_up_event(last_event, last_ev,
                                              ignore_enter_leave_until)
          IN  /\ last_event' = up.last_event
              /\ log' = up.fx \o <<<<"schedule_now", on_done>>>>
    /\ run_loop' = Append(run_loop, PopupTask(on_done))
    /\ op' = "show_popup_menu"
    /\ arg' = on_done
    /\ ret' = Unit
    /\ UNCHANGED <<alive, delegate_alive, parent_platform_window, modal_close_callback,
                   ready_to_show, show_when_ready, platform_window, surface, scale,
                   panicked, ignore_enter_leave_until, clock, mouse, event_number>>

\* The closure that calls on_done before it looks at the window.
popup_closure_done_first(on_done, item_selected) ==
    LET moved == synthetize_mouse_move_if_needed(last_event, platform_window, clock)
    IN  IF alive
        THEN [until |-> clock,
              last_event |-> moved.last_event,
              fx |-> <<<<"popUpMenuPositioningItem", IF item_selected THEN 1 ELSE 0>>,
                       <<"on_done", on_done, item_selected>>,
                       <<"ignore_enter_leave_until.replace", clock>>>> \o moved.fx]
        ELSE [until |-> ignore_enter_leave_until,
              last_event |-> last_event,
              fx |-> <<<<"popUpMenuPositioningItem", IF item_selected THEN 1 ELSE 0>>,
                       <<"on_done", on_done, item_selected>>>>]

\* The closure that sets the threshold and synthesizes the move whether or
\* not weak.upgrade() succeeds.
popup_closure_ignores_teardown(on_done, item_selected) ==
    LET moved == synthetize_mouse_move_if_needed(last_event, platform_window, clock)
    IN  [until |-> clock,
         last_event |-> IF alive THEN moved.last_event ELSE last_event,
         fx |-> <<<<"popUpMenuPositioningItem", IF item_selected THEN 1 ELSE 0>>,
                  <<"ignore_enter_leave_until.replace", clock>>>> \o moved.fx \o
                <<<<"on_done", on_done, item_selected>>>>]

\* The closure show_popup_menu schedules (672-689), with item_selected what
\* popUpMenuPositioningItem returns once the menu has closed: on_done is taken;
\* if the core still exists the threshold is set to the uptime and a move is
\* synthesized; then on_done is called.
popup_closure(on_done, item_selected) ==
    LET moved == synthetize_mouse_move_if_needed(last_event, platform_window, clock)
    IN  IF alive
        THEN [until |-> clock,
              last_event |-> moved.last_event,
              fx |-> <<<<"popUpMenuPositioningItem", IF item_selected THEN 1 ELSE 0>>,
                       <<"ignore_enter_leave_until.replace", clock>>>> \o moved.fx \o
                     <<<<"on_done", on_done, item_selected>>>>]
        ELSE [until |-> ignore_enter_leave_until,
              last_event |-> last_event,
              fx |-> <<<<"popUpMenuPositioningItem", IF item_selected THEN 1 ELSE 0>>,
                       <<"on_done", on_done, item_selected>>>>]

\* The run loop runs the closure show_popup_menu scheduled.
RunPopup(item_selected) ==
    /\ ~panicked
    /\ run_loop # <<>>
    /\ Head(run_loop).kind = "popup"
    /\ run_loop' = Tail(run_loop)
    /\ LET ran == popup_closure(Head(run_loop).on_done, item_selected)
       IN  /\ ignore_enter_leave_until' = ran.until
           /\ last_event' = ran.last_event
           /\ log' = ran.fx
    /\ op' = "run_popup"
    /\ arg' = 0
    /\ ret' = Unit
    /\ UNCHANGED <<alive, delegate_alive, parent_platform_window, modal_close_callback,
                   ready_to_show, show_when_ready, platform_window, surface, scale,
                   panicked, clock, mouse, event_number>>

\* A lookup that falls back to the secondary press.
get_last_down_event_any_press(le) ==
    IF le[NSLeftMouseDown] # NoEvent THEN le[NSLeftMouseDown] ELSE le[NSRightMouseDown]

\* last_event.get(&NSLeftMouseDown) in begin_drag_session; NoEvent for None.
get_last_down_event(le) == le[NSLeftMouseDown]

\* A drag session that synthesizes the release before start_drag.
begin_drag_session_fx_releases_first(le, last_down_event, last_ev, until) ==
    LET up == synthetize_mouse_up_event(le, last_ev, until)
    IN  [last_event |-> up.last_event,
         fx |-> up.fx \o <<<<"start_drag", last_down_event>>>>]

\* The body of begin_drag_session once the press is found: start_drag with
\* it, then synthetize_mouse_up_event(), which picked last_ev.
begin_drag_session_fx(le, last_down_event, last_ev, until) ==
    LET up == synthetize_mouse_up_event(le, last_ev, until)
    IN  [last_event |-> up.last_event,
         fx |-> <<<<"start_drag", last_down_event>>>> \o up.fx]

\* begin_drag_session(request)
BeginDragSession ==
    /\ alive /\ ~panicked
    /\ LET last_down_event == get_last_down_event(last_event)
       IN  IF last_down_event # NoEvent
           THEN \E last_ev \in max_by_key({e \in Values(last_event) : IsButtonEvent(e)}) :
                   LET started == begin_drag_session_fx(last_event, last_down_event,
                                                        last_ev, ignore_enter_leave_until)
                   IN  /\ last_event' = started.last_event
                       /\ log' = started.fx
                       /\ ret' = [kind |-> "Ok"]
           ELSE /\ last_event' = last_event
                /\ log' = <<>>
                /\ ret' = [kind |-> "Err", error |-> "NoEventFound"]
    /\ op' = "begin_drag_session"
    /\ arg' = 0
    /\ UNCHANGED <<alive, delegate_alive, parent_platform_window, modal_close_callback,
                   ready_to_show, show_when_ready, run_loop, platform_window, surface,
                   scale, panicked, ignore_enter_leave_until, clock, mouse, event_number>>

\* perform_window_drag(): the stored NSLeftMouseDown event with the highest
\* number is handed to performWindowDragWithEvent:; NoEventFound without one.
PerformWindowDrag ==
    /\ alive /\ ~panicked
    /\ \E found \in max_by_key({e \in Values(last_event) : e.type = NSLeftMouseDown}) :
          IF found # NoEvent
          THEN /\ log' = <<<<"performWindowDragWithEvent", found>>>>
               /\ ret' = [kind |-> "Ok"]
          ELSE /\ log' = <<>>
               /\ ret' = [kind |-> "Err", error |-> "NoEventFound"]
    /\ op' = "perform_window_drag"
    /\ arg' = 0
    /\ UNCHANGED <<alive, delegate_alive, parent_platform_window, modal_close_callback,
                   ready_to_show, show_when_ready, run_loop, platform_window, surface,
                   scale, panicked>>
    /\ UNCHANGED eventvars

\* with_state: the callback runs when the weak back-reference upgrades.
with_state(upgraded, fx) == IF upgraded THEN fx ELSE <<>>

\* with_state_res that asks the callback without looking at the core.
with_state_res_always_calls(upgraded, result, default) == result

\* with_state_res: the callback's result, or default() without a core.
with_state_res(upgraded, result, default) == IF upgraded THEN result ELSE default

\* with_state_delegate: with_state, and the delegate has to upgrade as well.
with_state_delegate(fx) == with_state(alive, IF delegate_alive THEN fx ELSE <<>>)

\* The callbacks of the window delegate class and the dragging callbacks of
\* the window class; the latter four return a value.
WindowDelegateCallbacks ==
    {"window_did_move", "window_should_close", "window_will_close",
     "window_did_become_key", "window_did_resign_key"}
DraggingCallbacks ==
    {"dragging_entered", "dragging_updated", "dragging_exited", "perform_drag_operation",
     "source_operation_mask_for_dragging_context", "dragging_session_ended_at_point"}
DraggingResultCallbacks ==
    {"dragging_entered", "dragging_updated", "perform_drag_operation",
     "source_operation_mask_for_dragging_context"}

\* NSDragOperationNone and NO, the defaults handed to with_state_res.
NSDragOperationNone == 0
NO == 0

\* What a native callback does, with result what the drag context answers.
native_callback(name, result) ==
    IF name = "window_will_close"
    THEN LET closing == window_will_close(platform_window)
         IN  [pw |-> IF alive THEN closing.pw ELSE platform_window,
              fx |-> with_state(alive, closing.fx),
              ret |-> Unit]
    ELSE IF name = "window_should_close"
    THEN [pw |-> platform_window,
          fx |-> with_state_delegate(<<<<"did_request_close", 0>>>>),
          ret |-> [kind |-> "BOOL", value |-> NO]]
    ELSE IF name = "window_did_become_key"
    THEN [pw |-> platform_window,
          fx |-> with_state_delegate(<<<<"menu_manager.window_did_become_active", 0>>>>),
          ret |-> Unit]
    ELSE IF name = "window_did_resign_key"
    THEN [pw |-> platform_window,
          fx |-> with_state_delegate(<<<<"menu_manager.window_did_resign_active", 0>>>>),
          ret |-> Unit]
    ELSE IF name = "window_did_move"
    THEN [pw |-> platform_window, fx |-> with_state_delegate(<<>>), ret |-> Unit]
    ELSE IF name \in DraggingResultCallbacks
    THEN [pw |-> platform_window,
          fx |-> with_state(alive, <<<<"drag_context", name>>>>),
          ret |-> [kind |-> IF name = "perform_drag_operation" THEN "BOOL"
                            ELSE "NSDragOperation",
                   value |-> with_state_res(alive, result,
                                            IF name = "perform_drag_operation" THEN NO
                                            ELSE NSDragOperationNone)]]
    ELSE [pw |-> platform_window,
          fx |-> with_state(alive, <<<<"drag_context", name>>>>),
          ret |-> Unit]

\* AppKit calls one of the callbacks; result is what the drag context would
\* answer to it.
NativeCallback(name, result) ==
    /\ ~panicked
    /\ name \notin DraggingResultCallbacks => result = 0
    /\ platform_window' = native_callback(name, result).pw
    /\ log' = native_callback(name, result).fx
    /\ ret' = native_callback(name, result).ret
    /\ op' = name
    /\ arg' = result
    /\ UNCHANGED <<alive, delegate_alive, parent_platform_window, modal_close_callback,
                   ready_to_show, show_when_ready, run_loop, surface, scale, panicked>>
    /\ UNCHANGED eventvars

\* Time passes.
Tick ==
    /\ ~panicked
    /\ clock < MaxTime
    /\ clock' = clock + 1
    /\ op' = "tick"
    /\ arg' = 0
    /\ log' = <<>>
    /\ ret' = Unit
    /\ UNCHANGED <<alive, delegate_alive, parent_platform_window, modal_close_callback,
                   ready_to_show, show_when_ready, run_loop, platform_window, surface,
                   scale, panicked, last_event, ignore_enter_leave_until, mouse,
                   event_number>>

\* The user moves the pointer.
MoveMouse(location) ==
    /\ ~panicked
    /\ location # mouse
    /\ mouse' = location
    /\ op' = "move_mouse"
    /\ arg' = 0
    /\ log' = <<>>
    /\ ret' = Unit
    /\ UNCHANGED <<alive, delegate_alive, parent_platform_window, modal_close_callback,
                   ready_to_show, show_when_ready, run_loop, platform_window, surface,
                   scale, panicked, last_event, ignore_enter_leave_until, clock,
                   event_number>>

\* ------------------------------------------------------------ specifications
\* A step of the program with the recorded observations left alone.
Plain(A) == A /\ UNCHANGED obsvars

Next ==
    \/ Plain(ReadyToShow)
    \/ Plain(Show)
    \/ Plain(Hide)
    \/ Plain(\E c \in 1..NCallbacks : ShowModal(c))
    \/ Plain(\E v \in 1..NValues : CloseWithResult(v))
    \/ Plain(Close)
    \/ Plain(RunTask)
    \/ Plain(\E s \in Surfaces : Render(s))
    \/ Plain(DropDelegate)
    \/ Plain(DestroyParent)
    \/ Plain(Teardown)
    \/ Plain(\E g \in ResizeRequests : SetGeometry(g))

Spec == Init /\ [][Next]_vars

\* The run loop runs every closure scheduled on it.
FairSpec == Spec /\ WF_vars(Plain(RunTask))

\* ------------------------------------------------------------ recorded runs
\* The calls of the visibility protocol.
VisibilityOps == {"ready_to_show", "show", "hide", "show_modal"}

\* Whether the step that logged l ran a show_when_ready check, and whether
\* that check went on to present the window.
CheckRan(l) == Happened(l, "schedule") \/ Happened(l, "panic") \/ Happened(l, "actually_show")
Presented(l) == Happened(l, "actually_show")

\* A step of the program with the visibility call it makes appended to history
\* (at most MaxHist such calls are made), the poll chains these calls start
\* and the presentations counted, and the last hide() marked.
Called(A) ==
    /\ A
    /\ op' \in VisibilityOps => Len(history) < MaxHist
    /\ history' = IF op' \in VisibilityOps THEN Append(history, op') ELSE history
    /\ chains' = IF op' \in VisibilityOps /\ CheckRan(log') THEN chains + 1 ELSE chains
    /\ presentations' = IF Presented(log') THEN Inc(presentations, MaxChecks + 1)
                        ELSE presentations
    /\ hide_mark' = IF op' = "hide" THEN presentations
                    ELSE IF op' \in {"show", "show_modal"} THEN -1
                    ELSE hide_mark
    /\ UNCHANGED <<checks, nil_checks>>
    /\ UNCHANGED callbackobs

\* What the renderer shows in the recorded runs: nothing, a surface of the
\* size the new window expects at scale 1, and one of another size.
SeqSurfaces ==
    {NoSurface, IOSurface(TemporarySize, TemporarySize), IOSurface(MaxPx, TemporarySize)}

NextSeq ==
    \/ Called(ReadyToShow)
    \/ Called(Show)
    \/ Called(Hide)
    \/ Called(\E c \in 1..NCallbacks : ShowModal(c))
    \/ Called(\E v \in 1..NValues : CloseWithResult(v))
    \/ Called(Close)
    \/ Called(RunTask)
    \/ Called(\E s \in SeqSurfaces : Render(s))
    \/ Called(DropDelegate)
    \/ Called(Teardown)

\* A window on a screen whose backing scale factor is 1.
InitSeq == Init /\ scale = 1

SpecSeq == InitSeq /\ [][NextSeq]_vars

\* A step of the program with its show_when_ready check counted.
Counted(A) ==
    /\ A
    /\ checks' = IF CheckRan(log') THEN Inc(checks, MaxChecks + 1) ELSE checks
    /\ nil_checks' = IF CheckRan(log') /\ Contents(platform_window).kind = "nil"
                     THEN Inc(nil_checks, MaxChecks + 1) ELSE nil_checks
    /\ presentations' = IF Presented(log') THEN Inc(presentations, MaxChecks + 1)
                        ELSE presentations
    /\ UNCHANGED <<history, chains, hide_mark>>
    /\ UNCHANGED callbackobs

NextPoll ==
    \/ Counted(ReadyToShow)
    \/ Counted(Show)
    \/ Counted(ShowModal(NCallbacks))
    \/ Counted(RunTask)
    \/ Counted(\E s \in Surfaces : Render(s))
    \/ Counted(\E g \in ResizeRequests : SetGeometry(g))
    \/ Counted(Teardown)

SpecPoll == Init /\ [][NextPoll]_vars

\* Geometry requests against a window that may be modal.
NextGeom ==
    \/ Plain(\E c \in 1..NCallbacks : ShowModal(c))
    \/ Plain(\E v \in 1..NValues : CloseWithResult(v))
    \/ Plain(\E g \in Requests : SetGeometry(g))
    \/ Plain(SupportedGeometry)

\* A window with a parent, on a screen whose backing scale factor is 1.
InitGeom == Init /\ scale = 1 /\ parent_platform_window = "Some"

SpecGeom == InitGeom /\ [][NextGeom]_vars


\* ------------------------------------------------------------ tracked runs
\* The completion callbacks a step has called: <<"callback", c>> for a modal
\* completion callback, <<"on_done", c>> for a popup one.
Invoked(l) ==
    [i \in 1..Len(SelectSeq(l, LAMBDA x : x[1] \in {"callback", "on_done"})) |->
        <<SelectSeq(l, LAMBDA x : x[1] \in {"callback", "on_done"})[i][1],
          SelectSeq(l, LAMBDA x : x[1] \in {"callback", "on_done"})[i][2]>>]

\* A step of the program with the completion callbacks it calls recorded.
\* Every closure handed to show_modal or show_popup_menu is a new one (it is
\* moved into a Box), and the callback show_modal replaces is noted.
Tracked(A) ==
    /\ A
    /\ op' = "show_modal" => <<"callback", arg'>> \notin handed
    /\ op' = "show_popup_menu" => <<"on_done", arg'>> \notin handed
    /\ handed' = IF op' = "show_modal" THEN handed \cup {<<"callback", arg'>>}
                 ELSE IF op' = "show_popup_menu" THEN handed \cup {<<"on_done", arg'>>}
                 ELSE handed
    /\ overwritten' = IF op' = "show_modal" /\ modal_close_callback # 0
                      THEN overwritten \cup {modal_close_callback}
                      ELSE overwritten
    /\ invocations' = invocations \o Invoked(log')
    /\ scheduled' = IF op' = "show_popup_menu" THEN [scheduled EXCEPT ![arg'] = clock]
                    ELSE scheduled
    /\ UNCHANGED <<history, chains, checks, nil_checks, presentations, hide_mark>>

NextModal ==
    \/ Tracked(ReadyToShow)
    \/ Tracked(\E c \in 1..NCallbacks : ShowModal(c))
    \/ Tracked(\E v \in 1..NValues : CloseWithResult(v))
    \/ Tracked(Close)
    \/ Tracked(\E c \in 1..NCallbacks : ShowPopupMenu(c))
    \/ Tracked(RunPopup(TRUE))
    \/ Tracked(RunTask)
    \/ Tracked(Render(IOSurface(TemporarySize, TemporarySize)))
    \/ Tracked(Teardown)

SpecModal == InitGeom /\ [][NextModal]_vars

\* ------------------------------------------------------------ event runs
\* Button events, and the calls that synthesize the release of a press.
ButtonTypes == {NSLeftMouseDown, NSLeftMouseUp, NSRightMouseDown, NSRightMouseUp}

NextButtons ==
    \/ Plain(\E event \in {e \in HostEvents : e.type \in ButtonTypes} : SendEvent(event))
    \/ Plain(ShowPopupMenu(NCallbacks))
    \/ Plain(\E selected \in BOOLEAN : RunPopup(selected))
    \/ Plain(BeginDragSession)
    \/ Plain(PerformWindowDrag)
    \/ Plain(Teardown)

SpecButtons == InitGeom /\ [][NextButtons]_vars

\* Pointer events other than button events, one event that is no pointer
\* event, a moving pointer, passing time, and popup menus, whose closing sets
\* the threshold under which NSMouseEntered / NSMouseExited are withheld.
HoverTypes == {NSMouseMoved, NSMouseEntered, NSMouseExited, NSMouseExited + 1}

NextHover ==
    \/ Plain(\E event \in {e \in HostEvents : e.type \in HoverTypes} : SendEvent(event))
    \/ Plain(ShowPopupMenu(NCallbacks))
    \/ Plain(RunPopup(TRUE))
    \/ Plain(Tick)
    \/ Plain(\E location \in MousePositions : MoveMouse(location))
    \/ Plain(Teardown)

SpecHover == InitGeom /\ [][NextHover]_vars

\* Popup menus on a window with a stored pointer event, with time passing, the
\* pointer moving and the core dropped at any point, the callbacks tracked.
NextPopup ==
    \/ Tracked(\E event \in {e \in HostEvents : e.type = NSMouseMoved} : SendEvent(event))
    \/ Tracked(\E c \in 1..NCallbacks : ShowPopupMenu(c))
    \/ Tracked(\E selected \in BOOLEAN : RunPopup(selected))
    \/ Tracked(Tick)
    \/ Tracked(\E location \in MousePositions : MoveMouse(location))
    \/ Tracked(Teardown)

SpecPopup == InitGeom /\ [][NextPopup]_vars

\* The entry points AppKit calls, on a window whose delegate and whose core
\* may be gone.
NextNative ==
    \/ Plain(\E event \in {e \in HostEvents : e.type \in {NSLeftMouseDown, NSMouseMoved}} :
                SendEvent(event))
    \/ Plain(\E name \in WindowDelegateCallbacks \cup DraggingCallbacks, result \in 0..1 :
                NativeCallback(name, result))
    \/ Plain(DropDelegate)
    \/ Plain(Teardown)

SpecNative == InitGeom /\ [][NextNative]_vars

\* ------------------------------------------------------------ claims
\* The rendered surface has the pixel size the content view expects: each
\* dimension is scale * length with the fraction cut off.
ContentMatches ==
    /\ platform_window.content_view
    /\ surface.kind = "IOSurface"
    /\ surface.width * Den <= scale * platform_window.frame.w
    /\ scale * platform_window.frame.w < (surface.width + 1) * Den
    /\ surface.height * Den <= scale * (platform_window.frame.h - TitleBar)
    /\ scale * (platform_window.frame.h - TitleBar) < (surface.height + 1) * Den

NotifiedVisible(l) == \E i \in 1..Len(l) : l[i] = <<"visibility_changed", 1>>
NotifiedHidden(l) == \E i \in 1..Len(l) : l[i] = <<"visibility_changed", 0>>

\* C1: from a fresh window, show() then ready_to_show(), and ready_to_show()
\* then show(), each start exactly one poll chain (at most one poll scheduled,
\* at most one presentation), and the first of the two calls starts none.
C1_OrderIndependence ==
    /\ history \in {<<"show">>, <<"ready_to_show">>}
          => chains = 0 /\ run_loop = <<>> /\ presentations = 0
    /\ history \in {<<"show", "ready_to_show">>, <<"ready_to_show", "show">>}
          => chains = 1 /\ Len(run_loop) + presentations <= 1

C1_Witness ==
    /\ history = <<"show", "ready_to_show">>
    /\ chains = 1
    /\ Len(run_loop) = 1

\* C2: show() then hide() on a window not yet declared ready clears the
\* remembered request, and a ready_to_show() after them starts no poll,
\* presents nothing and notifies nothing.
C2_ShowHideBeforeReady ==
    /\ history = <<"show", "hide">>
          => ~show_when_ready /\ chains = 0 /\ presentations = 0
    /\ history = <<"show", "hide", "ready_to_show">>
          => /\ chains = 0 /\ run_loop = <<>> /\ presentations = 0
             /\ platform_window.ordered = "out"
             /\ ~NotifiedVisible(log)

C2_Witness ==
    /\ history = <<"show", "hide", "ready_to_show">>
    /\ op = "ready_to_show"
    /\ alive /\ ContentMatches

\* C4: after hide() on a window that was never presented, and until show()
\* or show_modal() is called again, the window is not presented.
C4_HideCancelsPendingShow == hide_mark = 0 => presentations = 0

\* C5: hide() orders the window out and notifies visibility_changed(false)
\* exactly when the window was presented before the call, once, and
\* schedules no poll.
C5_HideIffPresented ==
    op = "hide" =>
        /\ Happened(log, "orderOut") <=> presentations > 0
        /\ NotifiedHidden(log) <=> presentations > 0
        /\ Count(log, "orderOut") <= 1 /\ Count(log, "visibility_changed") <= 1
        /\ ~Happened(log, "schedule")

\* C8: once ready_to_show() has been called the ready flag stays set through
\* any show, hide, show_modal and close calls, and every later show() or
\* show_modal() runs the show_when_ready check at once.
C8_ReadinessRetained ==
    (\E i \in 1..Len(history) : history[i] = "ready_to_show")
        => /\ ready_to_show
           /\ op \in {"show", "show_modal"} => CheckRan(log)

C8_Witness ==
    /\ history = <<"ready_to_show", "hide", "show">>
    /\ op = "show"
    /\ CheckRan(log)


\* C3: the window is presented, and visibility_changed(true) sent, only by a
\* show_when_ready check that finds rendered contents of the expected pixel
\* size, once, without another check being scheduled; when n checks found
\* no content and check n + 1 finds matching contents (n = 3 in the spec's
\* scenario), check n + 1 makes the one presentation call there is.
C3_PresentedOnlyOnMatch ==
    /\ Presented(log)
          => /\ op \in {"run_loop_turn", "ready_to_show", "show", "show_modal"}
             /\ ContentMatches
             /\ Count(log, "actually_show") = 1
             /\ ~Happened(log, "schedule")
    /\ NotifiedVisible(log) => Presented(log)
    /\ Happened(log, "makeKeyAndOrderFront") \/ Happened(log, "beginSheet")
          => Presented(log)
    /\ \A n \in 0..(MaxChecks - 1) :
          checks = n + 1 /\ nil_checks = n /\ CheckRan(log) /\ ContentMatches
             => presentations = 1 /\ Presented(log) /\ ~Happened(log, "schedule")

C3_Witness ==
    /\ checks = 4 /\ nil_checks = 3
    /\ op = "run_loop_turn"
    /\ presentations = 1 /\ Presented(log)
    /\ platform_window.ordered = "front"

\* A step that runs a show_when_ready check.
RunsCheck ==
    \/ op' = "run_loop_turn" /\ alive
    \/ op' \in {"show", "show_modal"} /\ ready_to_show
    \/ op' = "ready_to_show" /\ show_when_ready
\* The contents that check finds are missing, or are a surface of another size.
ContentsNotReady ==
    /\ Contents(platform_window).kind # "other"
    /\ ~ContentMatches
\* The window (its core, and the delegate that stands for it in the shell) is
\* alive and the renderer shows contents of the expected size.
Stable == alive /\ delegate_alive /\ ~panicked /\ ContentMatches

C7_PollEndsOnlyByTeardown ==
    [][/\ op' = "run_loop_turn" /\ ~alive
             => /\ log' = <<>>
                /\ run_loop' = Tail(run_loop)
                /\ platform_window' = platform_window
       /\ op' \in {"hide", "close", "close_with_result"} => run_loop' = run_loop
       /\ Len(run_loop') < Len(run_loop)
             => /\ op' = "run_loop_turn"
                /\ ~alive \/ Presented(log') \/ panicked']_vars

C7_Witness ==
    /\ op = "run_loop_turn"
    /\ ~alive
    /\ ContentMatches
    /\ platform_window.ordered = "out"

\* The top-left corner of the window's frame on the screen.
TopLeft(pw) == <<pw.frame.x, pw.frame.y + pw.frame.h>>

\* C9: set_geometry on a modal window reports frame_origin and content_origin
\* as not applied and leaves the window where it is, and reports every size
\* field it was given as applied; on any other window it reports and applies
\* every origin it was given; supported_geometry reports the origins as
\* supported exactly when the window is not modal, and every size as
\* supported.
C9_ModalGating ==
    /\ [][op' = "set_geometry" =>
            LET geometry == arg'
                flags == ret'.flags
            IN  /\ \A f \in {"frame_size", "content_size"} \cup LimitFields :
                      flags[f] = IsSome(geometry[f])
                /\ modal_close_callback # 0
                      => /\ ~flags.frame_origin /\ ~flags.content_origin
                         /\ TopLeft(platform_window') = TopLeft(platform_window)
                /\ modal_close_callback = 0
                      => /\ flags.frame_origin = IsSome(geometry.frame_origin)
                         /\ flags.content_origin = IsSome(geometry.content_origin)
                         /\ IsSome(geometry.content_origin)
                               => TopLeft(platform_window') =
                                     <<geometry.content_origin[1],
                                       ScreenHeight * Den - geometry.content_origin[2]
                                          + TitleBar>>
                         /\ IsSome(geometry.frame_origin) /\ ~IsSome(geometry.content_origin)
                               => TopLeft(platform_window') =
                                     <<geometry.frame_origin[1],
                                       ScreenHeight * Den - geometry.frame_origin[2]>>]_vars
    /\ [](op = "supported_geometry" =>
             /\ ret.flags.frame_origin = (modal_close_callback = 0)
             /\ ret.flags.content_origin = (modal_close_callback = 0)
             /\ \A f \in {"frame_size", "content_size"} \cup LimitFields : ret.flags[f])

C9_Witness ==
    /\ op = "set_geometry"
    /\ modal_close_callback # 0
    /\ IsSome(arg.frame_origin) /\ IsSome(arg.content_size)
    /\ ~ret.flags.frame_origin /\ ret.flags.content_size
    /\ TopLeft(platform_window) # <<arg.frame_origin[1],
                                    ScreenHeight * Den - arg.frame_origin[2]>>

\* C10: close_with_result(value) empties modal_close_callback; a callback that
\* was pending is invoked once, with Ok(value), before anything close() does;
\* without one nothing is invoked and the window is closed.
C10_CloseWithResult ==
    [][op' = "close_with_result" =>
          /\ modal_close_callback' = 0
          /\ Count(log', "close") = 1
          /\ IF modal_close_callback # 0
             THEN /\ Count(log', "callback") = 1
                  /\ log'[1] = <<"callback", modal_close_callback, arg'>>
             ELSE ~Happened(log', "callback")]_vars

C10_Witness ==
    /\ op = "close_with_result"
    /\ Happened(log, "callback")
    /\ Happened(log, "endSheet")
    /\ modal_close_callback = 0


\* C11: once the window has been closed, by close() or by close_with_result,
\* no completion callback is pending and is_modal() is false.
C11_NoModalSessionAfterClose ==
    op \in {"close", "close_with_result"}
       => modal_close_callback = 0 /\ ~is_modal(modal_close_callback)

\* C12: close() calls no completion callback, whatever the outcome it would
\* be given: with a callback pending it ends the sheet the window is, closes
\* the native window, and leaves the callback where it is.
C12_CloseInvokesNoCallback ==
    [][op' = "close" =>
          /\ ~Happened(log', "callback")
          /\ Count(log', "close") = 1
          /\ platform_window.ordered = "sheet" => Happened(log', "endSheet")
          /\ platform_window'.ordered = "out"
          /\ modal_close_callback' = modal_close_callback]_vars

C12_Witness ==
    /\ op = "close"
    /\ modal_close_callback # 0
    /\ Happened(log, "endSheet")
    /\ platform_window.ordered = "out"


\* C13: show_modal on a window that holds a completion callback replaces it
\* and raises no error: the callback handed in last is the one pending, it is
\* the one a later close_with_result(v) calls, with v, and a replaced callback
\* is never called.
C13_LastWriteWins ==
    /\ [](/\ op = "show_modal"
                => modal_close_callback = arg /\ ret = Unit /\ ~panicked
          /\ \A i \in 1..Len(invocations) :
                invocations[i][1] = "callback" => invocations[i][2] \notin overwritten)
    /\ [][op' = "close_with_result" /\ modal_close_callback # 0
             => /\ Count(log', "callback") = 1
                /\ log'[1] = <<"callback", modal_close_callback, arg'>>
                /\ modal_close_callback \notin overwritten]_vars

C13_Witness ==
    /\ op = "close_with_result"
    /\ overwritten # {}
    /\ Len(invocations) = 1
    /\ invocations[1][1] = "callback"
    /\ <<"callback", invocations[1][2]>> \in handed
    /\ modal_close_callback = 0

\* C14: no completion callback, modal or popup, is called twice, and the call
\* empties the place the callback was kept in: modal_close_callback for a
\* modal one, the scheduled closure for a popup one.
C14_CallbacksConsumedOnce ==
    /\ [](\A i, j \in 1..Len(invocations) : invocations[i] = invocations[j] => i = j)
    /\ [][/\ Happened(log', "callback") => modal_close_callback' = 0
          /\ Happened(log', "on_done")
                => /\ Count(log', "on_done") = 1
                   /\ Len(run_loop') = Len(run_loop) - 1
                   /\ \A i \in 1..Len(run_loop') :
                         run_loop'[i] # PopupTask(log'[Index(log', "on_done")][2])]_vars

C14_Witness ==
    /\ op = "close_with_result"
    /\ ~Happened(log, "callback")
    /\ \E i \in 1..Len(invocations) : invocations[i][1] = "callback"
    /\ \E i \in 1..Len(invocations) : invocations[i][1] = "on_done"

\* The events a step passed on to NSWindow, and the events the core itself
\* sent to the window.
Forwarded(l) == {l[i][2] : i \in {j \in 1..Len(l) : l[j][1] = "super.sendEvent"}}
Injected(l) == {l[i][2] : i \in {j \in 1..Len(l) : l[j][1] = "sendEvent"}}

\* C15: an event delivered while the core is alive is recorded under its type
\* whether or not it is passed on, and before that is decided (the move
\* synthesized for a withheld event already carries its number); the record
\* holds one event per type, filed under that type, and an event is only
\* replaced by one whose number is at least as high.
C15_LastEventOverwrite ==
    /\ [](\A t \in EventTypes : last_event[t] # NoEvent => last_event[t].type = t)
    /\ [][/\ op' = "send_event" /\ alive
                => /\ last_event'[arg'.type] = arg'
                   /\ \A e \in Injected(log') : e.eventNumber = arg'.eventNumber
                   /\ \A t \in EventTypes \ {arg'.type} :
                         last_event'[t] # last_event[t] => last_event'[t] \in Injected(log')
          /\ \A t \in EventTypes :
                last_event'[t].eventNumber >= last_event[t].eventNumber]_vars

C15_Witness ==
    /\ op = "send_event"
    /\ alive
    /\ ret.value = FALSE
    /\ arg.eventNumber >= 2
    /\ last_event[arg.type] = arg
    /\ Injected(log) # {}

SynthesisOps == {"show_popup_menu", "begin_drag_session"}

\* C17: a call that synthesizes a release sends at most one event, and when
\* it has sent the release of a primary press, the call made right after it
\* sends none.
C17_ReleaseSynthesisIdempotent ==
    /\ [](Count(log, "sendEvent") <= 1)
    /\ [][/\ op \in SynthesisOps /\ op' \in SynthesisOps
          /\ \E e \in Injected(log) : e.type = NSLeftMouseUp
          => Injected(log') = {}]_vars

\* The stored button events with the highest number.
LatestButtonEvents ==
    LET buttons == {last_event[t] : t \in ButtonTypes} \ {NoEvent}
    IN  {e \in buttons : \A f \in buttons : f.eventNumber <= e.eventNumber}

\* C18: release synthesis looks at the stored button event with the highest
\* number only: what it sends is the release matching that event, a press,
\* with its number and modifiers; it sends nothing when that event is a
\* release or when no button event is stored.
C18_ReleaseOfLatestPress ==
    [][Happened(log', "synthetize_mouse_up_event") =>
          /\ Count(log', "synthetize_mouse_up_event") = 1
          /\ Count(log', "sendEvent") <= 1
          /\ \A e \in Injected(log') :
                \E press \in LatestButtonEvents :
                   /\ press.type \in {NSLeftMouseDown, NSRightMouseDown}
                   /\ e.type = press.type + 1
                   /\ e.eventNumber = press.eventNumber
                   /\ e.modifierFlags = press.modifierFlags
                   /\ e \in Forwarded(log')
          /\ Injected(log') = {}
                => \/ LatestButtonEvents = {}
                   \/ \E release \in LatestButtonEvents :
                         release.type \in {NSLeftMouseUp, NSRightMouseUp}]_vars

C18_Witness ==
    /\ op = "show_popup_menu"
    /\ \E e \in Injected(log) :
          /\ e.type = NSRightMouseUp
          /\ last_event[NSLeftMouseDown] # NoEvent
          /\ last_event[NSLeftMouseUp] = NoEvent
          /\ last_event[NSLeftMouseDown].eventNumber < e.eventNumber

\* C19: synthetize_mouse_move_if_needed sends an NSMouseMoved exactly when a
\* pointer event is stored and the pointer is strictly inside the content
\* rectangle; the event is located at the pointer and stamped with the
\* uptime; and a withheld NSMouseEntered / NSMouseExited makes one attempt.
C19_HoverMoveSynthesis ==
    [][LET le == IF op' = "send_event"
                 THEN [last_event EXCEPT ![arg'.type] = arg']
                 ELSE last_event
           stored == \E t \in NSLeftMouseDown..NSMouseExited :
                        t \in EventTypes /\ le[t] # NoEvent
           inside == /\ mouse[1] > platform_window.frame.x
                     /\ mouse[1] < platform_window.frame.x + platform_window.frame.w
                     /\ mouse[2] > platform_window.frame.y
                     /\ mouse[2] < platform_window.frame.y + platform_window.frame.h
                                      - TitleBar
           moves == {e \in Injected(log') : e.type = NSMouseMoved}
       IN  /\ Happened(log', "synthetize_mouse_move_if_needed")
                => /\ Count(log', "synthetize_mouse_move_if_needed") = 1
                   /\ moves # {} <=> stored /\ inside
                   /\ \A e \in moves :
                         /\ e.timestamp = clock
                         /\ e.location = <<mouse[1] - platform_window.frame.x,
                                           mouse[2] - platform_window.frame.y>>
                         /\ e \in Forwarded(log')
           /\ ~Happened(log', "synthetize_mouse_move_if_needed") => moves = {}
           /\ op' = "send_event" /\ ret'.value = FALSE
                => Count(log', "synthetize_mouse_move_if_needed") = 1]_vars

C19_Witness ==
    /\ op = "send_event"
    /\ ret.value = FALSE
    /\ \E e \in Injected(log) : e.type = NSMouseMoved /\ e.timestamp > arg.timestamp
    /\ last_event[NSMouseMoved] \in Injected(log)

\* C20: show_popup_menu synthesizes the release once, schedules one closure
\* and pops up nothing; the menu is popped up only by that closure when the
\* run loop runs it, in a later step.
C20_PopupDeferred ==
    [][/\ op' = "show_popup_menu"
             => /\ Count(log', "synthetize_mouse_up_event") = 1
                /\ Count(log', "schedule_now") = 1
                /\ Index(log', "synthetize_mouse_up_event") < Index(log', "schedule_now")
                /\ ~Happened(log', "popUpMenuPositioningItem")
                /\ run_loop' = Append(run_loop, PopupTask(arg'))
       /\ Happened(log', "popUpMenuPositioningItem")
             => /\ op' = "run_popup"
                /\ Count(log', "popUpMenuPositioningItem") = 1
                /\ run_loop # <<>> /\ Head(run_loop).kind = "popup"
                /\ run_loop' = Tail(run_loop)
                /\ ~Happened(log', "synthetize_mouse_up_event")]_vars

C20_Witness ==
    /\ op = "run_popup"
    /\ Happened(log, "popUpMenuPositioningItem")
    /\ Happened(log, "on_done")
    /\ last_event[NSLeftMouseUp] # NoEvent
    /\ last_event[NSLeftMouseUp].eventNumber = last_event[NSLeftMouseDown].eventNumber


\* C21: the closure that pops the menu up calls on_done once, with
\* item_selected true exactly when the popup call returned YES; while the
\* core exists it first sets ignore_enter_leave_until to the uptime, which is
\* not before the time the popup was scheduled, and then attempts one move
\* synthesis, both before on_done is called.
C21_PopupRoundTrip ==
    /\ [](\A i, j \in 1..Len(invocations) : invocations[i] = invocations[j] => i = j)
    /\ [][clock' >= clock]_vars
    /\ [][op' = "run_popup" =>
            LET on_done == Head(run_loop).on_done
                popped == log'[Index(log', "popUpMenuPositioningItem")][2]
            IN  /\ Count(log', "popUpMenuPositioningItem") = 1
                /\ Count(log', "on_done") = 1
                /\ log'[Len(log')] = <<"on_done", on_done, popped = 1>>
                /\ alive
                      => /\ ignore_enter_leave_until' = clock
                         /\ ignore_enter_leave_until' >= scheduled[on_done]
                         /\ Count(log', "ignore_enter_leave_until.replace") = 1
                         /\ Count(log', "synthetize_mouse_move_if_needed") = 1
                         /\ Index(log', "popUpMenuPositioningItem")
                               < Index(log', "ignore_enter_leave_until.replace")
                         /\ Index(log', "ignore_enter_leave_until.replace")
                               < Index(log', "synthetize_mouse_move_if_needed")
                         /\ Index(log', "synthetize_mouse_move_if_needed")
                               < Index(log', "on_done")]_vars

C21_Witness ==
    /\ op = "run_popup"
    /\ alive
    /\ log[Len(log)][1] = "on_done" /\ log[Len(log)][3] = TRUE
    /\ ignore_enter_leave_until > 0
    /\ ignore_enter_leave_until > scheduled[log[Len(log)][2]]
    /\ Injected(log) # {}

\* C29: when the core is gone by the time the popup call returns, on_done is
\* still called once with the outcome, ignore_enter_leave_until is not
\* written, no move is synthesized and nothing is recorded.
C29_PopupAfterTeardown ==
    [][op' = "run_popup" /\ ~alive =>
          /\ Count(log', "on_done") = 1
          /\ log'[Len(log')] =
                <<"on_done", Head(run_loop).on_done,
                  log'[Index(log', "popUpMenuPositioningItem")][2] = 1>>
          /\ ignore_enter_leave_until' = ignore_enter_leave_until
          /\ ~Happened(log', "ignore_enter_leave_until.replace")
          /\ ~Happened(log', "synthetize_mouse_move_if_needed")
          /\ Injected(log') = {}
          /\ last_event' = last_event]_vars

C29_Witness ==
    /\ op = "run_popup"
    /\ ~alive
    /\ Happened(log, "on_done")
    /\ clock > ignore_enter_leave_until
    /\ last_event[NSMouseMoved] # NoEvent
    /\ mouse = InsidePoint


\* C22: perform_window_drag and begin_drag_session return NoEventFound
\* exactly when the ledger holds no NSLeftMouseDown event; they then start
\* no drag, inject nothing and leave the ledger and the rest of the state as
\* they were; with such an event stored both return Ok, having handed it on.
DragOps == {"perform_window_drag", "begin_drag_session"}

C22_NoEventFound ==
    [][op' \in DragOps =>
          /\ ret'.kind = "Err" <=> last_event[NSLeftMouseDown] = NoEvent
          /\ ret'.kind = "Err"
                => /\ ret'.error = "NoEventFound"
                   /\ log' = <<>>
                   /\ UNCHANGED <<alive, delegate_alive, parent_platform_window,
                                  modal_close_callback, ready_to_show, show_when_ready,
                                  run_loop, platform_window, surface, scale, panicked>>
                   /\ UNCHANGED eventvars
          /\ ret'.kind # "Err"
                => /\ ret'.kind = "Ok"
                   /\ log'[1] = <<IF op' = "begin_drag_session" THEN "start_drag"
                                  ELSE "performWindowDragWithEvent",
                                  last_event[NSLeftMouseDown]>>]_vars

C22_Witness ==
    /\ op = "begin_drag_session"
    /\ ret.kind = "Err"
    /\ last_event[NSRightMouseDown] # NoEvent
    /\ last_event[NSLeftMouseUp] # NoEvent


\* C26: a begin_drag_session that returns Ok hands the stored NSLeftMouseDown
\* event to start_drag and afterwards injects exactly one event, the
\* NSLeftMouseUp that carries the number of that press.
C26_DragReleasesThePress ==
    [][op' = "begin_drag_session" /\ ret'.kind = "Ok" =>
          /\ log'[1] = <<"start_drag", last_event[NSLeftMouseDown]>>
          /\ Count(log', "sendEvent") = 1
          /\ Index(log', "start_drag") < Index(log', "sendEvent")
          /\ \A e \in Injected(log') :
                /\ e.type = NSLeftMouseUp
                /\ e.eventNumber = last_event[NSLeftMouseDown].eventNumber]_vars


\* C25: every close() ends the sheet first when the window is one, closes
\* the child windows and removes the content view controller, the latter
\* before the menu manager and the delegate are told that the window closes.
C25_CloseCleansUp ==
    [][op' = "close" =>
          /\ platform_window.ordered = "sheet" => log'[1] = <<"endSheet", 0>>
          /\ Happened(log', "close")
          /\ Happened(log', "childWindows.close")
          /\ Happened(log', "setContentViewController")
          /\ ~platform_window'.content_view
          /\ Happened(log', "menu_manager.window_will_close")
                => Index(log', "setContentViewController")
                      < Index(log', "menu_manager.window_will_close")
          /\ Happened(log', "will_close")
                => Index(log', "setContentViewController") < Index(log', "will_close")]_vars


\* C27: at any time the run loop holds at most one scheduled show_when_ready
\* check, whatever show, ready_to_show, hide and show_modal calls were made.
C27_SinglePollChain ==
    Cardinality({i \in 1..Len(run_loop) : run_loop[i] = PollTask}) <= 1

\* C28: whenever the window is presented while a modal callback is stored,
\* its parent is present and still resolves, so that the sheet is attached
\* and nothing panics.
C28_SheetHasParent ==
    Presented(log) /\ modal_close_callback # 0
        => /\ parent_platform_window = "Some"
           /\ ~Happened(log, "panic")
           /\ ~panicked


\* C24: whatever the size of the window, a logical frame origin or content
\* origin converted to native coordinates by the setter and back by the
\* getter is the original one, so that right after a set_geometry that moves
\* the window without resizing it the getter reports the requested origin.
LogicalPoints == {<<x, y>> : x \in 0..ScreenFrameHeight, y \in 0..ScreenFrameHeight}

C24_CoordinateRoundTrip ==
    /\ [](\A position \in LogicalPoints :
             /\ get_frame_origin(set_frame_origin(platform_window, position)) = position
             /\ get_content_position(set_content_position(platform_window, position))
                   = position)
    /\ [][/\ op' = "set_geometry"
          /\ ~is_modal(modal_close_callback)
          /\ ~IsSome(arg'.frame_size) /\ ~IsSome(arg'.content_size)
          => /\ IsSome(arg'.content_origin)
                   => get_content_position(platform_window') = arg'.content_origin
             /\ IsSome(arg'.frame_origin) /\ ~IsSome(arg'.content_origin)
                   => get_frame_origin(platform_window') = arg'.frame_origin]_vars

C24_Witness ==
    /\ op = "set_geometry"
    /\ ~is_modal(modal_close_callback)
    /\ arg.frame_origin = <<Den, Den + 1>>
    /\ ~IsSome(arg.content_origin) /\ ~IsSome(arg.frame_size) /\ ~IsSome(arg.content_size)
    /\ get_frame_origin(platform_window) = <<Den, Den + 1>>
    /\ platform_window.frame.h # InitialRect * Den + TitleBar
    /\ platform_window.frame.y # ScreenFrameHeight - (Den + 1)


\* C23: a native entry point called after the core is gone raises nothing,
\* leaves the core's state and the ledger as they were and calls neither the
\* delegate nor the drag context nor the menu manager (an event is merely
\* passed on to the superclass); the dragging callbacks that return a value
\* return no operation, respectively NO.
NativeEntryPoints == WindowDelegateCallbacks \cup DraggingCallbacks \cup {"send_event"}

C23_DeadCoreNoOp ==
    [][~alive /\ op' \in NativeEntryPoints =>
          /\ ~panicked'
          /\ UNCHANGED <<alive, delegate_alive, parent_platform_window, modal_close_callback,
                         ready_to_show, show_when_ready, run_loop, platform_window,
                         surface, scale, last_event, ignore_enter_leave_until>>
          /\ IF op' = "send_event"
             THEN \A i \in 1..Len(log') : log'[i][1] = "super.sendEvent"
             ELSE log' = <<>>
          /\ op' \in DraggingResultCallbacks => ret'.value = 0]_vars

C23_Witness ==
    /\ ~alive
    /\ delegate_alive
    /\ op = "perform_drag_operation"
    /\ arg = 1
    /\ ret.value = NO
    /\ log = <<>>
    /\ last_event[NSLeftMouseDown] # NoEvent

====
